---- MODULE Spec2Model ----
(***************************************************************************)
(* A model of src/main.py, the CMS hospital CSV downloader: the name       *)
(* normaliser snake_case, the metadata store (load_metadata and            *)
(* save_metadata), the catalog filter fetch_hospital_datasets, the         *)
(* per-dataset worker download_and_process and the orchestrator main with  *)
(* its ThreadPoolExecutor.                                                 *)
(***************************************************************************)
EXTENDS Integers, Sequences, FiniteSets

VARIABLES
    catalog,            \* the JSON array the catalog endpoint serves
    disk,               \* the files of cms_hospitals_data, by name
    pcMain,             \* where main() is
    last_metadata,      \* main's last_metadata
    updated_metadata,   \* main's updated_metadata
    datasets,           \* main's datasets
    outcome,            \* what the network and the disk do to each download
    served,             \* per download: the size of the CSV text of its table, the characters a failing write gets out
    future,             \* the Future of each submitted call: its exception, its result
    offset,             \* the position in its output file of each call's file handle
    pc,                 \* where each submitted download_and_process is
    k,                  \* the index of the future main is waiting for
    runs,               \* runs of main started so far
    saves,              \* calls of save_metadata in the current run
    unchanged,          \* history: this run sees the catalog of the run before
    prevRun,            \* history: how the run before ended
    prevLast,           \* history: the snapshot the run before loaded, when it saw this catalog
    prevOk,             \* history: the calls of that run that returned (name, modified)
    succeeded,          \* history: the (name, modified) pairs written in full
    hdr,                \* the header handed to snake_case
    col                 \* what snake_case returned

vars == <<catalog, disk, pcMain, last_metadata, updated_metadata,
          datasets, outcome, served, future, offset, pc, k, runs, saves, unchanged, prevRun, prevLast, prevOk,
          succeeded, hdr, col>>

pipeVars == <<catalog, disk, pcMain, last_metadata, updated_metadata,
              datasets, outcome, served, future, offset, pc, k, runs, saves, unchanged, prevRun, prevLast, prevOk,
              succeeded>>

normVars == <<hdr, col>>

(***************************************************************************)
(* Bounds of the model.                                                    *)
(***************************************************************************)
MaxCatalog == 2
MaxRuns == 2
MaxWorkers == 2
MaxLen == 4
MaxThemes == 2
MaxText == 2

(***************************************************************************)
(* Strings are sequences of one-character strings.                         *)
(***************************************************************************)
Hospitals == <<"H", "o", "s", "p", "i", "t", "a", "l", "s">>

HospitalsGeneral == Hospitals \o <<" ", "-", " ", "G", "e", "n", "e", "r", "a", "l">>

NursingHomes == <<"N", "u", "r", "s", "i", "n", "g", " ", "H", "o", "m", "e", "s">>

AllHospitals == <<"A", "l", "l", " ">> \o Hospitals

hospitalsLower == <<"h">> \o SubSeq(Hospitals, 2, 9)

Hospital == SubSeq(Hospitals, 1, 8)

(***************************************************************************)
(* snake_case, lines 16-20.                                                *)
(***************************************************************************)
UpperLetters == <<"A", "B", "C", "D", "E", "F", "G", "H", "I", "J", "K", "L", "M",
                  "N", "O", "P", "Q", "R", "S", "T", "U", "V", "W", "X", "Y", "Z">>

LowerLetters == <<"a", "b", "c", "d", "e", "f", "g", "h", "i", "j", "k", "l", "m",
                  "n", "o", "p", "q", "r", "s", "t", "u", "v", "w", "x", "y", "z">>

Digits == {"0", "1", "2", "3", "4", "5", "6", "7", "8", "9"}

\* str.isspace() and the \s of a str pattern: the 29 white-space characters
\* of Python.  Those TLA+ cannot write stand under their names: VT is U+000B,
\* FS, GS, RS and US are U+001C to U+001F, NEL is U+0085, NBSP is U+00A0,
\* the others carry their code point.
Whitespace ==
    {"\t", "\n", "VT", "\f", "\r", "FS", "GS", "RS", "US", " ", "NEL", "NBSP",
     "U1680", "U2000", "U2001", "U2002", "U2003", "U2004", "U2005", "U2006",
     "U2007", "U2008", "U2009", "U200A", "U2028", "U2029", "U202F", "U205F",
     "U3000"}

RangeOf(s) == {s[i] : i \in 1..Len(s)}

\* Characters outside ASCII stand under their names: EACUTE is U+00C9 and
\* eacute U+00E9, KELVIN is U+212A, IDOT is U+0130 (capital I with dot
\* above), U0307 the combining dot above, SIGMA is U+03A3, sigma U+03C3 and
\* finalsigma U+03C2; GRAVE is the grave accent U+0060.

\* the characters with the Unicode property Cased
Cased ==
    RangeOf(UpperLetters) \cup RangeOf(LowerLetters)
        \cup {"EACUTE", "eacute", "KELVIN", "IDOT", "SIGMA", "sigma", "finalsigma"}

\* the characters with the Unicode property Case_Ignorable
CaseIgnorable == {"'", ".", ":", "^", "GRAVE", "U0307"}

\* the lowercase mapping of one character, which may be longer than it:
\* KELVIN lowers to the ASCII k, IDOT to i followed by U0307
LowerChar(c) ==
    IF c \in RangeOf(UpperLetters)
    THEN <<LowerLetters[CHOOSE i \in 1..Len(UpperLetters) : UpperLetters[i] = c]>>
    ELSE IF c = "EACUTE" THEN <<"eacute">>
    ELSE IF c = "KELVIN" THEN <<"k">>
    ELSE IF c = "IDOT" THEN <<"i", "U0307">>
    ELSE IF c = "SIGMA" THEN <<"sigma">>
    ELSE <<c>>

\* s[i] stands at the end of a word: behind a cased character and not
\* before one, case-ignorable characters skipped on both sides
FinalSigma(s, i) ==
    LET before == {j \in 1..(i - 1) : s[j] \notin CaseIgnorable}
        after == {j \in (i + 1)..Len(s) : s[j] \notin CaseIgnorable}
    IN  /\ before # {}
        /\ s[CHOOSE j \in before : \A x \in before : x <= j] \in Cased
        /\ \/ after = {}
           \/ s[CHOOSE j \in after : \A x \in after : j <= x] \notin Cased

RECURSIVE LowerFrom(_, _)
\* the characters of s from position i on, lowered
LowerFrom(s, i) ==
    IF i > Len(s) THEN <<>>
    ELSE (IF s[i] = "SIGMA" /\ FinalSigma(s, i) THEN <<"finalsigma">>
          ELSE LowerChar(s[i])) \o LowerFrom(s, i + 1)

\* str.lower()
Lower(s) == LowerFrom(s, 1)

RECURSIVE LStrip(_, _)
\* str.lstrip(chars)
LStrip(s, chars) ==
    IF s # <<>> /\ Head(s) \in chars THEN LStrip(Tail(s), chars) ELSE s

RECURSIVE RStrip(_, _)
\* str.rstrip(chars)
RStrip(s, chars) ==
    IF s # <<>> /\ s[Len(s)] \in chars
    THEN RStrip(SubSeq(s, 1, Len(s) - 1), chars)
    ELSE s

\* str.strip(chars)
Strip(s, chars) == RStrip(LStrip(s, chars), chars)

RECURSIVE RemoveSpecial(_)
\* re.sub(r"[^a-z0-9\s]", "", name)
RemoveSpecial(s) ==
    IF s = <<>> THEN <<>>
    ELSE IF Head(s) \in RangeOf(LowerLetters) \cup Digits \cup Whitespace
         THEN <<Head(s)>> \o RemoveSpecial(Tail(s))
         ELSE RemoveSpecial(Tail(s))

RECURSIVE CollapseEach(_)
\* re.sub(r"\s", "_", name): one underscore for each white-space character
CollapseEach(s) ==
    IF s = <<>> THEN <<>>
    ELSE IF Head(s) \in Whitespace
         THEN <<"_">> \o CollapseEach(Tail(s))
         ELSE <<Head(s)>> \o CollapseEach(Tail(s))

RECURSIVE CollapseSpaces(_)
\* re.sub(r"\s+", "_", name)
CollapseSpaces(s) ==
    IF s = <<>> THEN <<>>
    ELSE IF Head(s) \in Whitespace
         THEN <<"_">> \o CollapseSpaces(LStrip(s, Whitespace))
         ELSE <<Head(s)>> \o CollapseSpaces(Tail(s))

snake_case(name) ==
    Strip(CollapseSpaces(RemoveSpecial(Lower(Strip(name, Whitespace)))), {"_"})

(***************************************************************************)
(* Dataset descriptors: the objects of the catalog's JSON array.  A field  *)
(* a descriptor may lack is modelled by a value that says so: title is     *)
(* whether the key is there, url is <<>> when distribution[0] has no       *)
(* downloadURL, theme carries its JSON type.                               *)
(***************************************************************************)
ThStr(s) == [kind |-> "str", val |-> <<s>>]

ThList(l) == [kind |-> "list", val |-> l]

ThMissing == [kind |-> "missing", val |-> <<>>]

ThNull == [kind |-> "null", val |-> <<>>]

Descriptor(title, theme, modified, url) ==
    [title |-> title, theme |-> theme, modified |-> modified, url |-> url]

\* Hospital datasets as the catalog lists them
Da1 == Descriptor(TRUE, ThList(<<Hospitals>>), "m1", <<"x", "a.csv">>)

Dya2 == Descriptor(TRUE, ThList(<<Hospitals>>), "m2", <<"y", "a.csv">>)

Db1 == Descriptor(TRUE, ThList(<<Hospitals>>), "m1", <<"x", "b.csv">>)

\* a descriptor without a title
DnoTitle == Descriptor(FALSE, ThList(<<Hospitals>>), "m1", <<"x", "b.csv">>)

\* a descriptor without a distribution (or without its downloadURL)
DnoUrl == Descriptor(TRUE, ThList(<<Hospitals>>), "m1", <<>>)

\* a dataset of another theme
Dnursing == Descriptor(TRUE, ThList(<<NursingHomes>>), "m1", <<"x", "c.csv">>)

\* a dataset whose download URL ends in the name of the metadata file
Dmeta == Descriptor(TRUE, ThList(<<Hospitals>>), "m1", <<"x", "metadata.json">>)

Descriptors == {Da1, Dya2, Db1, DnoTitle, DnoUrl, Dnursing, Dmeta}

\* METADATA_FILE, line 12, as a name in OUTPUT_DIR
METADATA_FILE == "metadata.json"

Names == {"a.csv", "b.csv", METADATA_FILE}

Themes ==
    {ThMissing, ThNull, ThStr(Hospitals), ThStr(HospitalsGeneral),
     ThStr(NursingHomes), ThStr(hospitalsLower), ThStr(Hospital),
     ThStr(AllHospitals), ThList(<<>>), ThList(<<Hospitals>>),
     ThList(<<HospitalsGeneral>>), ThList(<<NursingHomes, Hospitals>>)}

ThemeDescriptors == {Descriptor(TRUE, t, "m1", <<"x", "a.csv">>) : t \in Themes}

SeqsUpTo(S, n) == UNION {[1..m -> S] : m \in 0..n}

(***************************************************************************)
(* fetch_hospital_datasets, lines 36-40.                                   *)
(***************************************************************************)
\* x in s for two str values: a substring search
Contains(sub, s) ==
    \E i \in 0..(Len(s) - Len(sub)) : SubSeq(s, i + 1, i + Len(sub)) = sub

\* 'Hospitals' in theme as a substring search in a str and in the elements of a list
ThemeMentionsHospitals(d) ==
    \E i \in 1..Len(d.theme.val) : Contains(Hospitals, d.theme.val[i])

\* 'Hospitals' in d.get('theme', ''), line 40: a substring search in a str
\* (in '' when the key is absent), a membership test in a list
ThemeHasHospitals(d) ==
    CASE d.theme.kind = "missing" -> Contains(Hospitals, <<>>)
      [] d.theme.kind = "str" -> Contains(Hospitals, d.theme.val[1])
      [] d.theme.kind = "list" ->
            \E i \in 1..Len(d.theme.val) : d.theme.val[i] = Hospitals
      [] OTHER -> FALSE

\* line 40 raises TypeError on a theme that is no container (JSON null)
FilterRaises(data) == \E i \in 1..Len(data) : data[i].theme.kind = "null"

RECURSIVE HospitalFilter(_)
\* the list comprehension of line 40
HospitalFilter(data) ==
    IF data = <<>> THEN <<>>
    ELSE IF ThemeHasHospitals(Head(data))
         THEN <<Head(data)>> \o HospitalFilter(Tail(data))
         ELSE HospitalFilter(Tail(data))

fetch_hospital_datasets(data) == HospitalFilter(data)

(***************************************************************************)
(* The files of OUTPUT_DIR.  A file is absent, CSV text that to_csv wrote  *)
(* (its characters, each naming the download and its place in the text of  *)
(* that download's table), or the JSON object save_metadata wrote, here    *)
(* the set of its key/value members.                                       *)
(***************************************************************************)
Absent == [st |-> "absent", chars |-> <<>>, text |-> {}]

Csv(chars) == [st |-> "csv", chars |-> chars, text |-> {}]

Json(text) == [st |-> "json", chars |-> <<>>, text |-> text]

\* the CSV text, n characters long, that to_csv renders of the table
\* read_csv fetched for d, its headers rewritten (lines 57-64)
Table(d, n) == [i \in 1..n |-> [url |-> d.url, modified |-> d.modified, at |-> i]]

\* the file open(path, "w") leaves: it exists and is empty
Truncated == Csv(<<>>)

\* the character of a hole: what a read finds where a write behind the
\* end of the file left a gap
NUL == [url |-> <<>>, modified |-> "", at |-> 0]

\* the file after chars were written at position off of it: they replace
\* the characters the file holds there, what lies before and behind them
\* stays, and a gap between the end of the file and off reads as NUL
Overlay(chars, off, file) ==
    Csv([j \in 1..off |-> IF j <= Len(file.chars) THEN file.chars[j] ELSE NUL]
        \o chars
        \o SubSeq(file.chars, off + Len(chars) + 1, Len(file.chars)))

\* the file that holds the whole text of d's table and nothing else
Complete(d, n) == Csv(Table(d, n))

(***************************************************************************)
(* The metadata store, lines 23-33.  main holds a dict, here a function.   *)
(***************************************************************************)
EmptyDict == [n \in {} |-> "m1"]

json_dump(metadata) == {<<n, metadata[n]>> : n \in DOMAIN metadata}

json_load(text) ==
    [n \in {p[1] : p \in text} |-> (CHOOSE p \in text : p[1] = n)[2]]

\* json.load (line 26) raises on a file that holds a table and no JSON object
\* (or .copy(), line 76, on a JSON value that is no object)
LoadRaises == disk[METADATA_FILE].st = "csv"

load_metadata ==
    IF disk[METADATA_FILE].st = "json"
    THEN json_load(disk[METADATA_FILE].text)
    ELSE EmptyDict

\* the snapshot as loaded written back in place of the one handed over
save_last_metadata(metadata) == Json(json_dump(last_metadata))

save_metadata(metadata) == Json(json_dump(metadata))

(***************************************************************************)
(* download_and_process, lines 43-70.                                      *)
(***************************************************************************)
\* Path(urlparse(download_url).path).name, lines 47-48: the last path segment
FileName(d) == d.url[Len(d.url)]

\* the exception lines 44-48 raise, outside the try of line 55: KeyError
\* from dataset['title'] without a title, TypeError from Path() without a
\* download URL
PreludeException(d) ==
    IF ~d.title THEN "KeyError" ELSE IF d.url = <<>> THEN "TypeError" ELSE "none"

PreludeRaises(d) == PreludeException(d) # "none"

\* the test of line 51
IsUnchanged(d, last) ==
    FileName(d) \in DOMAIN last /\ last[FileName(d)] = d.modified

\* what a download can meet: nothing, a failing read_csv (fetch or parse),
\* a to_csv that fails after it opened the file
Outcomes == {"ok", "readfail", "writefail"}

\* what the downloads of a run are served: a table whose CSV text has at
\* least one character, and for a to_csv that fails the characters it gets
\* out first, fewer than the text has
Servings(ds, oc, last) ==
    {sv \in [DOMAIN ds -> [size : 1..MaxText, cut : 0..(MaxText - 1)]] :
        \A i \in DOMAIN ds :
            /\ sv[i].cut < sv[i].size
            /\ oc[i] # "writefail" => sv[i].cut = 0
            /\ (oc[i] = "readfail" \/ PreludeRaises(ds[i]) \/ IsUnchanged(ds[i], last))
                  => sv[i].size = 1}

\* a write that puts nothing out
ChunkLost(t, off) == <<>>

\* what one write of to_csv (line 64) puts out of the text t when its
\* handle stands at off: the next character
Chunk(t, off) == <<t[off + 1]>>

\* the value None
None == <<>>

\* a Future whose call has not ended
Pending == [exception |-> "none", result |-> None]

\* a Future whose call raised e
Raised(e) == [exception |-> e, result |-> None]

\* a Future whose call returned r
Returned(r) == [exception |-> "none", result |-> r]

\* what the try of lines 55-70 returns: (name, modified) at line 67, None
\* at line 70 when read_csv or to_csv raised
Result(d, o) == IF o = "ok" THEN <<FileName(d), d.modified>> ELSE None

\* where a call is while it runs
Running == {"fetching", "opening", "writing"}

\* if result:, line 84: None is false, a (name, modified) tuple true
HasResult(result) == result # None

\* setdefault in place of the assignment: an entry already there is kept
MergeKeep(metadata, name, modified) ==
    [n \in DOMAIN metadata \cup {name} |->
        IF n \in DOMAIN metadata THEN metadata[n] ELSE modified]

\* updated_metadata[name] = modified, line 86
Merge(metadata, name, modified) ==
    [n \in DOMAIN metadata \cup {name} |->
        IF n = name THEN modified ELSE metadata[n]]

(***************************************************************************)
(* main, lines 73-88, and its workers.                                     *)
(***************************************************************************)
Catalogs == SeqsUpTo(Descriptors, MaxCatalog)

Idle == {"idle", "saved", "aborted", "load_failed", "fetch_failed", "filter_failed"}

\* the downloads the pool has picked up and not finished
Active == {i \in DOMAIN pc : pc[i] \in Running}

\* lines 74-81: the directory, the snapshot and its copy, the catalog (which
\* the endpoint may have changed since the last run, and whose fetch may fail),
\* and one submitted download_and_process per dataset, each with what its
\* download is to meet
Start(c, neterr) ==
    /\ pcMain \in Idle
    /\ runs < MaxRuns
    /\ catalog' = c
    /\ runs' = runs + 1
    /\ saves' = 0
    /\ k' = 1
    /\ unchanged' = (runs >= 1 /\ c = catalog)
    /\ prevRun' = IF pcMain # "saved" THEN pcMain
                  ELSE IF \A i \in DOMAIN pc :
                              \/ HasResult(future[i].result)
                              \/ IsUnchanged(datasets[i], last_metadata)
                       THEN "clean"
                  ELSE "saved"
    /\ prevLast' = IF unchanged' THEN last_metadata ELSE EmptyDict
    /\ prevOk' = IF unchanged' THEN {i \in DOMAIN pc : HasResult(future[i].result)} ELSE {}
    /\ last_metadata' = load_metadata
    /\ updated_metadata' = load_metadata
    /\ IF LoadRaises \/ neterr \/ FilterRaises(c)
       THEN /\ pcMain' = IF LoadRaises THEN "load_failed"
                        ELSE IF neterr THEN "fetch_failed"
                        ELSE "filter_failed"
            /\ datasets' = <<>>
            /\ pc' = <<>>
            /\ outcome' = <<>>
            /\ served' = <<>>
            /\ future' = <<>>
            /\ offset' = <<>>
       ELSE /\ pcMain' = "collect"
            /\ datasets' = fetch_hospital_datasets(c)
            /\ pc' = [i \in 1..Len(datasets') |-> "queued"]
            /\ future' = [i \in 1..Len(datasets') |-> Pending]
            /\ offset' = [i \in 1..Len(datasets') |-> 0]
            /\ \E oc \in [1..Len(fetch_hospital_datasets(c)) -> Outcomes] :
                  /\ \A i \in DOMAIN oc :
                        (\/ PreludeRaises(fetch_hospital_datasets(c)[i])
                         \/ IsUnchanged(fetch_hospital_datasets(c)[i], load_metadata))
                            => oc[i] = "ok"
                  /\ outcome' = oc
                  /\ served' \in Servings(fetch_hospital_datasets(c), oc, load_metadata)
    /\ UNCHANGED <<disk, succeeded, hdr, col>>

\* a pool thread runs lines 44-53 of a call it took from the queue.  The
\* threads take the calls in submission order, but a thread that took one
\* need not be the first to run: call i can start while earlier calls
\* have not, as long as there is a thread for each of them and for it
Begin(i) ==
    /\ pcMain \in {"collect", "aborting"}
    /\ i \in DOMAIN pc
    /\ pc[i] = "queued"
    /\ Cardinality({j \in 1..(i - 1) : pc[j] = "queued"}) + Cardinality(Active)
          < MaxWorkers
    /\ IF PreludeRaises(datasets[i])
       THEN /\ pc' = [pc EXCEPT ![i] = "done"]
            /\ future' = [future EXCEPT ![i] = Raised(PreludeException(datasets[i]))]
       ELSE IF IsUnchanged(datasets[i], last_metadata)
       THEN /\ pc' = [pc EXCEPT ![i] = "done"]
            /\ future' = [future EXCEPT ![i] = Returned(None)]
       ELSE /\ pc' = [pc EXCEPT ![i] = "fetching"]
            /\ UNCHANGED future
    /\ UNCHANGED <<catalog, disk, pcMain, last_metadata, updated_metadata,
                   datasets, outcome, served, offset, k, runs, saves, unchanged,
                   prevRun, prevLast, prevOk, succeeded, hdr, col>>

\* lines 57-60: read_csv fetches and parses, the headers are rewritten; when
\* it raises, the except clause returns None
Read(i) ==
    /\ i \in DOMAIN pc
    /\ pc[i] = "fetching"
    /\ IF outcome[i] = "readfail"
       THEN /\ pc' = [pc EXCEPT ![i] = "done"]
            /\ future' = [future EXCEPT ![i] = Returned(Result(datasets[i], outcome[i]))]
       ELSE /\ pc' = [pc EXCEPT ![i] = "opening"]
            /\ UNCHANGED future
    /\ UNCHANGED <<catalog, disk, pcMain, last_metadata, updated_metadata,
                   datasets, outcome, served, offset, k, runs, saves, unchanged,
                   prevRun, prevLast, prevOk, succeeded, hdr, col>>

\* line 64, first half: to_csv opens the output file, which truncates it
Open(i) ==
    /\ i \in DOMAIN pc
    /\ pc[i] = "opening"
    /\ pc' = [pc EXCEPT ![i] = "writing"]
    /\ disk' = [disk EXCEPT ![FileName(datasets[i])] = Truncated]
    /\ UNCHANGED <<catalog, pcMain, last_metadata, updated_metadata,
                   datasets, outcome, served, future, offset, k, runs, saves, unchanged, prevRun, prevLast, prevOk,
                   succeeded, hdr, col>>

\* line 64, second half, to line 70: to_csv writes the text piece by piece
\* at the handle's position; after the last piece the file is closed and
\* line 67 returns the pair.  A write that fails raises, and the except
\* clause returns None
Write(i) ==
    /\ i \in DOMAIN pc
    /\ pc[i] = "writing"
    /\ LET d == datasets[i]
           t == Table(d, served[i].size)
       IN  IF outcome[i] = "writefail" /\ offset[i] = served[i].cut
           THEN /\ pc' = [pc EXCEPT ![i] = "done"]
                /\ future' = [future EXCEPT ![i] = Returned(Result(d, outcome[i]))]
                /\ UNCHANGED <<disk, offset, succeeded>>
           ELSE /\ disk' = [disk EXCEPT ![FileName(d)] =
                               Overlay(Chunk(t, offset[i]), offset[i], disk[FileName(d)])]
                /\ offset' = [offset EXCEPT ![i] = offset[i] + 1]
                /\ IF outcome[i] = "ok" /\ offset[i] + 1 = Len(t)
                   THEN /\ pc' = [pc EXCEPT ![i] = "done"]
                        /\ future' = [future EXCEPT ![i] = Returned(Result(d, outcome[i]))]
                        /\ succeeded' = succeeded \cup {<<FileName(d), d.modified>>}
                   ELSE UNCHANGED <<pc, future, succeeded>>
    /\ UNCHANGED <<catalog, pcMain, last_metadata, updated_metadata,
                   datasets, outcome, served, k, runs, saves, unchanged,
                   prevRun, prevLast, prevOk, hdr, col>>

\* lines 82-86: future.result() of the next future, offset, in submission order; an
\* exception of the call is raised again here, in main
Collect ==
    /\ pcMain = "collect"
    /\ k \in DOMAIN pc
    /\ pc[k] = "done"
    /\ IF future[k].exception # "none"
       THEN /\ pcMain' = "aborting"
            /\ UNCHANGED <<updated_metadata, k>>
       ELSE /\ pcMain' = pcMain
            /\ k' = k + 1
            /\ updated_metadata' =
                  IF HasResult(future[k].result)
                  THEN Merge(updated_metadata, future[k].result[1], future[k].result[2])
                  ELSE updated_metadata
    /\ UNCHANGED <<catalog, disk, last_metadata, datasets, outcome, served, future, offset, pc,
                   runs, saves, unchanged, prevRun, prevLast, prevOk, succeeded, hdr, col>>

\* line 88, after the with block has ended normally
Save ==
    /\ pcMain = "collect"
    /\ k = Len(pc) + 1
    /\ disk' = [disk EXCEPT ![METADATA_FILE] = save_metadata(updated_metadata)]
    /\ saves' = saves + 1
    /\ pcMain' = "saved"
    /\ UNCHANGED <<catalog, last_metadata, updated_metadata, datasets, outcome, served, future, offset,
                   pc, k, runs, unchanged, prevRun, prevLast, prevOk, succeeded, hdr, col>>

\* the with block left by an exception: shutdown(wait=True) lets every
\* submitted call finish, then the exception ends main before line 88
Abort ==
    /\ pcMain = "aborting"
    /\ \A i \in DOMAIN pc : pc[i] = "done"
    /\ pcMain' = "aborted"
    /\ UNCHANGED <<catalog, disk, last_metadata, updated_metadata, datasets,
                   outcome, served, future, offset, pc, k, runs, saves, unchanged, prevRun, prevLast, prevOk, succeeded,
                   hdr, col>>

Init ==
    /\ catalog = <<>>
    /\ disk = [n \in Names |-> Absent]
    /\ pcMain = "idle"
    /\ last_metadata = EmptyDict
    /\ updated_metadata = EmptyDict
    /\ datasets = <<>>
    /\ outcome = <<>>
    /\ served = <<>>
    /\ future = <<>>
    /\ offset = <<>>
    /\ pc = <<>>
    /\ k = 1
    /\ runs = 0
    /\ saves = 0
    /\ unchanged = FALSE
    /\ prevRun = "idle"
    /\ prevLast = EmptyDict
    /\ prevOk = {}
    /\ succeeded = {}
    /\ hdr = <<>>
    /\ col = [done |-> FALSE, val |-> <<>>]

Next ==
    \/ \E c \in Catalogs, neterr \in BOOLEAN : Start(c, neterr)
    \/ \E i \in 1..MaxCatalog : Begin(i)
    \/ \E i \in 1..MaxCatalog : Read(i)
    \/ \E i \in 1..MaxCatalog : Open(i)
    \/ \E i \in 1..MaxCatalog : Write(i)
    \/ Collect
    \/ Save
    \/ Abort

Spec == Init /\ [][Next]_vars

(***************************************************************************)
(* snake_case on its own: every header up to MaxLen characters over an     *)
(* alphabet with a character of each class, and the header of the spec.    *)
(***************************************************************************)
NormAlphabet == {"a", "B", "7", " ", "\r", "NBSP", "!", "_", "KELVIN", "IDOT"}

PatientSurveyScore ==
    <<"P", "a", "t", "i", "e", "n", "t", " ", "S", "u", "r", "v", "e", "y", " ", " ",
      "S", "c", "o", "r", "e", "!">>

Headers == SeqsUpTo(NormAlphabet, MaxLen) \cup {PatientSurveyScore}

InitNorm ==
    /\ catalog = <<>>
    /\ disk = [n \in Names |-> Absent]
    /\ pcMain = "idle"
    /\ last_metadata = EmptyDict
    /\ updated_metadata = EmptyDict
    /\ datasets = <<>>
    /\ outcome = <<>>
    /\ served = <<>>
    /\ future = <<>>
    /\ offset = <<>>
    /\ pc = <<>>
    /\ k = 1
    /\ runs = 0
    /\ saves = 0
    /\ unchanged = FALSE
    /\ prevRun = "idle"
    /\ prevLast = EmptyDict
    /\ prevOk = {}
    /\ succeeded = {}
    /\ hdr \in Headers
    /\ col = [done |-> FALSE, val |-> <<>>]

\* one element of the comprehension of line 60
Normalize ==
    /\ ~col.done
    /\ col' = [done |-> TRUE, val |-> snake_case(hdr)]
    /\ UNCHANGED <<pipeVars, hdr>>

NextNorm == Normalize

SpecNorm == InitNorm /\ [][NextNorm]_vars

(***************************************************************************)
(* fetch_hospital_datasets on its own, over catalogs of up to MaxThemes    *)
(* descriptors with every shape of theme.                                  *)
(***************************************************************************)
InitFetch ==
    /\ catalog \in SeqsUpTo(ThemeDescriptors, MaxThemes)
    /\ disk = [n \in Names |-> Absent]
    /\ pcMain = "idle"
    /\ last_metadata = EmptyDict
    /\ updated_metadata = EmptyDict
    /\ datasets = <<>>
    /\ outcome = <<>>
    /\ served = <<>>
    /\ future = <<>>
    /\ offset = <<>>
    /\ pc = <<>>
    /\ k = 1
    /\ runs = 0
    /\ saves = 0
    /\ unchanged = FALSE
    /\ prevRun = "idle"
    /\ prevLast = EmptyDict
    /\ prevOk = {}
    /\ succeeded = {}
    /\ hdr = <<>>
    /\ col = [done |-> FALSE, val |-> <<>>]

\* lines 37-40: the request (which may fail), then the filter
FetchCatalog(neterr) ==
    /\ pcMain = "idle"
    /\ IF neterr \/ FilterRaises(catalog)
       THEN /\ pcMain' = IF neterr THEN "fetch_failed" ELSE "filter_failed"
            /\ datasets' = <<>>
       ELSE /\ pcMain' = "fetched"
            /\ datasets' = fetch_hospital_datasets(catalog)
    /\ UNCHANGED <<catalog, disk, last_metadata, updated_metadata, outcome, served, future, offset, pc, k,
                   runs, saves, unchanged, prevRun, prevLast, prevOk, succeeded, hdr, col>>

NextFetch == \E neterr \in BOOLEAN : FetchCatalog(neterr)

SpecFetch == InitFetch /\ [][NextFetch]_vars

(***************************************************************************)
(* The claims.                                                             *)
(***************************************************************************)
RECURSIVE Ascending(_)
\* the elements of a finite set of numbers, in ascending order
Ascending(S) ==
    IF S = {} THEN <<>>
    ELSE LET m == CHOOSE x \in S : \A y \in S : x <= y
         IN  <<m>> \o Ascending(S \ {m})

\* what a character of a header leaves in the name: itself when it is a
\* lowercase ASCII letter or a digit, its lowercase letter when it is an
\* uppercase ASCII letter, k for the Kelvin sign, i for the dotted capital
\* I, and nothing otherwise
Leaves(c) ==
    IF c \in RangeOf(LowerLetters) \cup Digits THEN <<c>>
    ELSE IF c \in RangeOf(UpperLetters)
         THEN <<LowerLetters[CHOOSE i \in 1..26 : UpperLetters[i] = c]>>
    ELSE IF c = "KELVIN" THEN <<"k">>
    ELSE IF c = "IDOT" THEN <<"i">>
    ELSE <<>>

\* the positions of the characters of header h that leave a character
KeptAt(h) == Ascending({i \in 1..Len(h) : Leaves(h[i]) # <<>>})

\* the positions of the characters of v other than the underscore
LettersAt(v) == Ascending({i \in 1..Len(v) : v[i] # "_"})

patient_survey_score ==
    <<"p", "a", "t", "i", "e", "n", "t", "_", "s", "u", "r", "v", "e", "y", "_",
      "s", "c", "o", "r", "e">>

\* C9: snake_case returns for every header; the result holds only lowercase
\* ASCII letters, digits and underscores, neither starts nor ends with an
\* underscore, and is the kept characters of the header in order, two
\* neighbours separated by exactly one underscore when white space lies
\* between them in the header and by nothing otherwise; the header
\* "Patient Survey  Score!" gives "patient_survey_score".
C9_Normalized ==
    col.done =>
        LET v == col.val
            kept == KeptAt(hdr)
            at == LettersAt(v)
        IN  /\ \A i \in 1..Len(v) : v[i] \in RangeOf(LowerLetters) \cup Digits \cup {"_"}
            /\ v # <<>> => v[1] # "_" /\ v[Len(v)] # "_"
            /\ \A i \in 1..(Len(v) - 1) : ~(v[i] = "_" /\ v[i + 1] = "_")
            /\ Len(at) = Len(kept)
            /\ \A j \in 1..Len(kept) : <<v[at[j]]>> = Leaves(hdr[kept[j]])
            /\ \A j \in 1..(Len(kept) - 1) :
                  at[j + 1] - at[j] =
                      IF \E i \in (kept[j] + 1)..(kept[j + 1] - 1) : hdr[i] \in Whitespace
                      THEN 2 ELSE 1
            /\ hdr = PatientSurveyScore => v = patient_survey_score

\* C9's case: the header of the spec, with its run of two spaces and its
\* punctuation, has been normalised
C9_Witness ==
    /\ col.done
    /\ hdr = PatientSurveyScore
    /\ col.val = patient_survey_score

\* a catalog entry of theme t, as the fetch specification lists it
Themed(t) == Descriptor(TRUE, t, "m1", <<"x", "a.csv">>)

\* C8 as stated: the fetch returns, in catalog order, exactly the descriptors
\* whose theme mentions "Hospitals" (as a substring of the theme or of one of
\* its categories), and a descriptor without a theme does not fail it.
C8_Original ==
    /\ pcMain = "fetched" => datasets = SelectSeq(catalog, ThemeMentionsHospitals)
    /\ pcMain = "filter_failed" => \E i \in 1..Len(catalog) : catalog[i].theme.kind = "null"

\* what line 40 selects: a str theme with the substring, a list theme with
\* the element "Hospitals" itself
SelectedTheme(d) ==
    \/ d.theme.kind = "str" /\ Contains(Hospitals, d.theme.val[1])
    \/ d.theme.kind = "list" /\ Hospitals \in RangeOf(d.theme.val)

\* C8, amended: the fetch returns, in catalog order, exactly the descriptors
\* whose theme is a string that contains "Hospitals" or a list with the
\* element "Hospitals"; a list whose categories only contain the word, such
\* as ["Hospitals - General"], is excluded like a missing theme, and only a
\* theme that is no container (null) makes the filter fail.
C8_Amended ==
    /\ pcMain = "fetched" =>
          /\ datasets = SelectSeq(catalog, SelectedTheme)
          /\ \A i \in 1..Len(datasets) :
                datasets[i].theme \notin
                    {ThMissing, ThStr(NursingHomes), ThList(<<HospitalsGeneral>>)}
          /\ \A i \in 1..Len(catalog) :
                catalog[i].theme \in {ThStr(HospitalsGeneral), ThList(<<Hospitals>>)}
                    => \E j \in 1..Len(datasets) : datasets[j] = catalog[i]
    /\ pcMain = "filter_failed" => \E i \in 1..Len(catalog) : catalog[i].theme.kind = "null"

\* C8's case: a list theme ["Hospitals - General"] was dropped and the str
\* theme "Hospitals - General" behind it kept
C8_Witness ==
    /\ pcMain = "fetched"
    /\ catalog = <<Themed(ThList(<<HospitalsGeneral>>)), Themed(ThStr(HospitalsGeneral))>>
    /\ datasets = <<Themed(ThStr(HospitalsGeneral))>>

\* the downloads of the current run that returned (name, modified) for name n
OkFor(n) ==
    {i \in DOMAIN pc : HasResult(future[i].result) /\ FileName(datasets[i]) = n}

\* the snapshot has for download i the very entry the catalog lists
SameEntry(i) ==
    /\ FileName(datasets[i]) \in DOMAIN last_metadata
    /\ last_metadata[FileName(datasets[i])] = datasets[i].modified

\* how call i ended: it raised, it returned (name, modified), it returned
\* None at line 53 or it returned None at line 70
Ended(i) ==
    IF pc[i] # "done" THEN "pending"
    ELSE IF future[i].exception # "none" THEN "raised"
    ELSE IF HasResult(future[i].result) THEN "ok"
    ELSE IF SameEntry(i) THEN "skipped"
    ELSE "failed"

\* download i got as far as the content fetch
Attempted(i) == pc[i] \in Running \/ Ended(i) \in {"failed", "ok"}

\* C1 as stated: every descriptor with a derived filename that process has
\* dealt with was fetched exactly when the prior snapshot has no entry equal
\* to its modified value, and was otherwise skipped with no result (the
\* call returns None at line 53: no fetch, no write, nothing merged).
C1_SkipRule ==
    \A i \in DOMAIN pc :
        (pc[i] # "queued" /\ datasets[i].url # <<>>) =>
            /\ Attempted(i) <=> ~SameEntry(i)
            /\ SameEntry(i) => Ended(i) = "skipped"

NoClash ==
    \A i, j \in DOMAIN datasets :
        FileName(datasets[i]) = FileName(datasets[j])
            => datasets[i].modified = datasets[j].modified

\* the calls of the run before that returned (name, modified) for the
\* filename of descriptor i
PrevOkFor(i) ==
    {j \in prevOk : FileName(datasets[j]) = FileName(datasets[i])}

\* the snapshot the run before left on disk records the modified value of
\* descriptor i under its filename: when that run saved and wrote
\* descriptors of this filename, the last of them in catalog order has this
\* value; otherwise the snapshot that run had loaded held it
SkipDue(i) ==
    IF prevRun \in {"clean", "saved"} /\ PrevOkFor(i) # {}
    THEN datasets[CHOOSE j \in PrevOkFor(i) : \A x \in PrevOkFor(i) : x <= j].modified
            = datasets[i].modified
    ELSE /\ FileName(datasets[i]) \in DOMAIN prevLast
         /\ prevLast[FileName(datasets[i])] = datasets[i].modified

Fated(i) ==
    IF ~datasets[i].title \/ datasets[i].url = <<>> THEN "raised"
    ELSE IF SameEntry(i) THEN "skipped"
    ELSE IF outcome[i] = "ok" THEN "ok"
    ELSE "failed"

\* the entry of name n is the same in dicts a and b
EntryEqual(a, b, n) ==
    /\ n \in DOMAIN a <=> n \in DOMAIN b
    /\ n \in DOMAIN a => a[n] = b[n]

\* C3 as stated: once a download has failed, the run is not aborted; when it
\* has saved, the entry of the failed dataset's filename is the prior one and
\* every other dataset ended as it would have without the failure.
C3_FailureIsolated ==
    \A i \in DOMAIN pc :
        Ended(i) = "failed" =>
            /\ pcMain \notin {"aborting", "aborted"}
            /\ pcMain = "saved" =>
                  /\ EntryEqual(load_metadata, last_metadata, FileName(datasets[i]))
                  /\ \A j \in DOMAIN pc : Ended(j) = Fated(j)

\* C4 as stated: no run whose catalog fetch succeeded is aborted by an error
\* of one descriptor; it saves once, after every submitted call has finished.
C4_SavedOnce ==
    /\ pcMain \notin {"aborting", "aborted"}
    /\ saves <= 1
    /\ pcMain = "saved" => saves = 1 /\ \A i \in DOMAIN pc : pc[i] = "done"

\* the entries a load finds on disk: those of the JSON object, none when the
\* metadata file is absent or holds no JSON object
Persisted ==
    IF disk[METADATA_FILE].st = "json" THEN json_load(disk[METADATA_FILE].text)
    ELSE EmptyDict

\* C5 as stated: every entry of the persisted snapshot is the (filename,
\* modified) of a download that was fetched, transformed and written without
\* error in some run; a run leaves the persisted snapshot as it loaded it
\* until it saves, and saves it with exactly the entries of its successful
\* downloads folded in: the entry of a filename without a successful
\* download (skipped, failed or no longer in the catalog) is neither added,
\* changed nor removed.
C5_Provenance ==
    /\ \A n \in DOMAIN Persisted : <<n, Persisted[n]>> \in succeeded
    /\ pcMain \in {"collect", "aborting", "aborted"} => Persisted = last_metadata
    /\ pcMain = "saved" =>
          \A n \in Names \cup DOMAIN last_metadata \cup DOMAIN Persisted :
              IF OkFor(n) = {}
              THEN EntryEqual(Persisted, last_metadata, n)
              ELSE /\ n \in DOMAIN Persisted
                   /\ \E i \in OkFor(n) : Persisted[n] = datasets[i].modified

\* C6 as stated: when no download is running, every output table on disk
\* is the whole text of the table of one download.
C6_NeverPartial ==
    (\A i \in DOMAIN pc : pc[i] = "done") =>
        \A n \in Names :
            disk[n].st = "csv" =>
                \E d \in Descriptors, m \in 1..MaxText : disk[n] = Complete(d, m)

\* the downloads among the first m of the run that are to return
\* (name, modified) for name n
FatedOk(n, m) ==
    {i \in 1..m : Fated(i) = "ok" /\ FileName(datasets[i]) = n}

\* the prior snapshot with the results of the first m downloads folded in, in
\* catalog order
Folded(m) ==
    [n \in DOMAIN last_metadata \cup {x \in Names : FatedOk(x, m) # {}} |->
        IF FatedOk(n, m) = {} THEN last_metadata[n]
        ELSE datasets[CHOOSE i \in FatedOk(n, m) : \A j \in FatedOk(n, m) : j <= i].modified]

\* C7: the snapshot a run persists is a function of the catalog, the prior
\* snapshot and what each download meets, whatever the interleaving: while
\* main collects, updated_metadata holds the results of the futures it has
\* collected so far, in submission order, and nothing a worker did; the
\* saved snapshot is that fold over the whole catalog; a run saves exactly
\* when no call is to raise.
C7_Deterministic ==
    /\ pcMain = "collect" => updated_metadata = Folded(k - 1)
    /\ pcMain = "saved" =>
          /\ load_metadata = Folded(Len(datasets))
          /\ \A i \in DOMAIN pc : Fated(i) # "raised"
    /\ pcMain \in {"aborting", "aborted"} => \E i \in DOMAIN pc : Fated(i) = "raised"

\* C7's case: two downloads of one filename finished in the reverse of their
\* submission order (the file is the first one's), and the saved entry is
\* the second one's
C7_Witness ==
    /\ pcMain = "saved"
    /\ datasets = <<Da1, Dya2>>
    /\ \A i \in DOMAIN pc : Ended(i) = "ok"
    /\ disk["a.csv"] = Complete(Da1, served[1].size)
    /\ load_metadata = [n \in {"a.csv"} |-> "m2"]

\* the file of name n is the whole table of download i, and the snapshot
\* records the modified value of download i for it
FileAndEntryOf(n, i) ==
    /\ disk[n] = Complete(datasets[i], served[i].size)
    /\ n \in DOMAIN load_metadata
    /\ load_metadata[n] = datasets[i].modified

\* C10 as stated: when a run has saved, every file whose entry the run set
\* holds the whole table of the version the snapshot records.
C10_Original ==
    pcMain = "saved" =>
        \A n \in Names :
            OkFor(n) # {} => \E i \in OkFor(n) : FileAndEntryOf(n, i)

\* the last descriptor in catalog order that the run wrote under name n
\* without error
LastOkFor(n) == CHOOSE i \in OkFor(n) : \A j \in OkFor(n) : j <= i

\* C10, amended: when a run has saved, every name whose entry the run set is
\* recorded with the modified value of the last descriptor in catalog order
\* that the run wrote under it without error; when no other descriptor of
\* the run derives the name and it is not the name of the metadata file,
\* the file holds the whole table of that descriptor.
C10_Amended ==
    pcMain = "saved" =>
        \A n \in Names :
            OkFor(n) # {} =>
                /\ n \in DOMAIN load_metadata
                /\ load_metadata[n] = datasets[LastOkFor(n)].modified
                /\ (/\ n # METADATA_FILE
                    /\ Cardinality({i \in DOMAIN datasets : FileName(datasets[i]) = n}) = 1)
                      => FileAndEntryOf(n, LastOkFor(n))

\* C10's case: a run has replaced a.csv, recorded under m2, by the m1 version
\* and written b.csv beside it
C10_Witness ==
    /\ pcMain = "saved"
    /\ datasets = <<Da1, Db1>>
    /\ \A i \in DOMAIN pc : Ended(i) = "ok"
    /\ "a.csv" \in DOMAIN last_metadata
    /\ last_metadata["a.csv"] = "m2"
    /\ disk["a.csv"] = Complete(Da1, served[1].size)

====
